---- MODULE Spec2Model ----
(***************************************************************************)
(* Event delivery pipeline of the Datalyr web SDK: class EventQueue        *)
(* (queue.ts, kept in src/unnamed/part_002 lines 787-1307), the retry      *)
(* delay of utils.ts and the SafeStorage wrapper of storage.ts.            *)
(*                                                                         *)
(* One action is one callback turn of the browser's event loop: a producer *)
(* call, a timer callback, a network-status event or the completion of a   *)
(* fetch together with every promise continuation that runs in the same    *)
(* microtask checkpoint.                                                   *)
(***************************************************************************)
EXTENDS Integers, Sequences, FiniteSets, TLC

\* ------------------------------------------------------------------ bounds
\* configuration handed to the constructor (small values instead of the
\* defaults 10 / 100 / 5); SmallBatch is the smallest batchSize a run uses
SmallBatch == 2
maxOfflineQueueSize == 2
maxRetries == 1
\* number of configured fallback endpoints
NumFallbacks == 1
\* pending 429 retry timers, pending/in-flight drain passes, late flush callers
MaxRetryTimers == 1
MaxDrains == 2
MaxWaiters == 1
\* distinct events the producer submits a second time
MaxDuplicates == 1
\* retry attempts 0 .. MaxAttempt - 1 of the backoff delay
MaxAttempt == 5

\* ------------------------------------------------------- program constants
MAX_RECENT_EVENT_IDS == 1000

DEFAULT_CRITICAL_EVENTS == {"purchase", "signup", "subscribe", "lead", "conversion"}

DEFAULT_HIGH_PRIORITY_EVENTS == {"add_to_cart", "begin_checkout", "view_item", "search"}

criticalEvents == DEFAULT_CRITICAL_EVENTS

highPriorityEvents == DEFAULT_HIGH_PRIORITY_EVENTS

\* ------------------------------------------------------------------ events
\* An event payload as far as the queue reads it: event_name, timestamp and
\* the JSON text of event_data.  Strings the hash reads are sequences of
\* UTF-16 code units.
NameCodes ==
  [ click    |-> <<99, 108, 105, 99, 107>>,
    scroll   |-> <<115, 99, 114, 111, 108, 108>>,
    search   |-> <<115, 101, 97, 114, 99, 104>>,
    purchase |-> <<112, 117, 114, 99, 104, 97, 115, 101>>,
    Aa       |-> <<65, 97>>,
    BB       |-> <<66, 66>> ]

\* "1" (timestamp) and "{}" (JSON.stringify of an empty event_data)
Stamp1 == <<49>>

EmptyJson == <<123, 125>>

Ev(n) == [event_name |-> n, timestamp |-> Stamp1, event_data |-> EmptyJson]

\* events the producer submits in this session
Events == { Ev("click"), Ev("scroll"), Ev("search"), Ev("purchase") }

\* ----------------------------------------------------------------- helpers
Min(a, b) == IF a < b THEN a ELSE b

\* Array.prototype.slice(0, n)
Take(s, n) == SubSeq(s, 1, Min(n, Len(s)))

\* what Array.prototype.splice(0, n) leaves in the array
Drop(s, n) == SubSeq(s, Min(n, Len(s)) + 1, Len(s))

\* Array.prototype.slice(-n) for n >= 1
LastN(s, n) == Drop(s, Len(s) - Min(n, Len(s)))

Range(s) == { s[i] : i \in 1..Len(s) }

RemoveAt(s, i) == SubSeq(s, 1, i - 1) \o SubSeq(s, i + 1, Len(s))

\* ------------------------------------------------------------ content hash
\* [name, timestamp, JSON].join('|')
Content(e) == NameCodes[e.event_name] \o <<124>> \o e.timestamp \o <<124>> \o e.event_data

\* One round of  hash = ((hash << 5) - hash) + char; hash = hash & hash
\* on the two 16-bit halves <<hi, lo>> of the 32-bit value.
HashStep(h, c) ==
  LET lo == 31 * h[2] + c
      hi == 31 * h[1] + (lo \div 65536)
  IN  << hi % 65536, lo % 65536 >>

RECURSIVE HashFold(_, _)
HashFold(h, s) == IF s = <<>> THEN h ELSE HashFold(HashStep(h, Head(s)), Tail(s))

\* the signed 32-bit integer the loop ends with
ToInt32(h) == IF h[1] >= 32768 THEN (h[1] - 65536) * 65536 + h[2] ELSE h[1] * 65536 + h[2]

\* Number.prototype.toString(36): digits of |n|, most significant first
RECURSIVE Digits36(_)
Digits36(n) == IF n < 36 THEN <<n>> ELSE Append(Digits36(n \div 36), n % 36)

\* sign and digits; -2^31 has no positive counterpart in 32 bits
\* (first element 1 for a leading "-")
ToString36(n) ==
  IF n >= 0 THEN <<0>> \o Digits36(n)
  ELSE IF n = -2147483647 - 1 THEN <<1, 35, 18, 20, 0, 35, 20>>
  ELSE <<1>> \o Digits36(-n)

createEventHash(e) == ToString36(ToInt32(HashFold(<<0, 0>>, Content(e))))

\* ------------------------------------------------------------------- state
VARIABLES
  batchSize,             \* this.config.batchSize
  queue,                 \* this.queue: the Ready Queue
  offlineQueue,          \* this.offlineQueue: the in-memory Offline Store
  stored,                \* what storage.get('dl_offline_queue', []) returns
  batchTimer,            \* this.batchTimer: "null", or the kind of timer the handle was set for
  timerPending,          \* the timer set last has not fired and was not cleared
  strayTimers,           \* batch timers set earlier that are still pending
  periodicFlushInterval, \* the setInterval of startPeriodicFlush is active
  flushPromise,          \* this.flushPromise: "null", "pending" (dispatch awaited), "resolved" (_flush returned)
  flushLock,             \* this.flushLock
  offlineQueueLock,      \* this.offlineQueueLock
  isOnline,              \* this.networkStatus.isOnline
  recentEventIds,        \* this.recentEventIds in insertion order
  inflight,              \* the sendBatch calls that have not settled, in start order
  retryTimers,           \* pending setTimeout(() => this.flush(), retryAfter * 1000)
  drainTimers,           \* pending setTimeout(() => this.processOfflineQueue(), 1000)
  waiters,               \* callers of flush() that were handed the in-flight promise
  accepted,              \* events that passed the Duplicate Filter
  suppressed,            \* events for which 'Duplicate event suppressed' was logged
  attempted,             \* events that were part of a fetch or of a beacon
  delivered,             \* events of a batch that a server answered with 2xx
  evicted,               \* events removed from the Offline Store by the size bound
  lost,                  \* events passed to moveToOfflineQueue while the lock was held
  backoff                \* the backoff wait of sendBatch under study: its inputs and its delay

vars == << batchSize, queue, offlineQueue, stored, batchTimer, timerPending, strayTimers,
           periodicFlushInterval,
           flushPromise, flushLock, offlineQueueLock, isOnline, recentEventIds, inflight,
           retryTimers, drainTimers, waiters, accepted, suppressed, attempted, delivered,
           evicted, lost, backoff >>

\* the state the flush coordinator's variables are left in by a turn
flushVars == << flushPromise, flushLock, waiters >>

timerVars == << batchTimer, timerPending >>

offlineVars == << offlineQueue, stored, offlineQueueLock, evicted, lost >>

ghostEnq == << accepted, suppressed >>

\* a sendBatch call: the batch, the endpoint index and the retry count of the
\* attempt whose fetch is outstanding (or whose backoff wait is running)
Dispatch(k, evs) == [kind |-> k, events |-> evs, endpointIndex |-> 0, retries |-> 0]

\* [this.config.endpoint, ...this.config.fallbackEndpoints].length
NumEndpoints == 1 + NumFallbacks

\* ---------------------------------------------------------- retry delay
\* Delays are in microseconds (milliseconds times 1000) and Math.random() is
\* random / 100, so that the factor 1 + jitter is (1000 + random) / 1000.
maxDelay == 30000

RECURSIVE Pow2(_)
Pow2(k) == IF k = 0 THEN 1 ELSE 2 * Pow2(k - 1)

\* variant: the delay is not capped
calculateRetryDelayNoCap(attempt, baseDelay, random) ==
  baseDelay * Pow2(attempt) * (1000 + random)

\* calculateRetryDelay(attempt, baseDelay) when Math.random() yields random
calculateRetryDelay(attempt, baseDelay, random) ==
  Min(baseDelay * Pow2(attempt) * (1000 + random), maxDelay * 1000)

\* config.retryDelay values, and values of Math.random() (in 1/100)
BaseDelays == {250, 1000, 2000, 10000, 20000}

Randoms == {0, 37, 99}

\* no backoff wait is under study
NoBackoff == [attempt |-> 0, baseDelay |-> 1000, random |-> 0, delay |-> -1]

\* constructor on a first visit (nothing persisted yet): the fields' initial
\* values, navigator.onLine, loadOfflineQueue, startPeriodicFlush
Constructed ==
  /\ stored = <<>>
  /\ offlineQueue = stored
  /\ queue = <<>>
  /\ batchTimer = "null"
  /\ timerPending = FALSE
  /\ strayTimers = 0
  /\ periodicFlushInterval = TRUE
  /\ flushPromise = "null"
  /\ flushLock = FALSE
  /\ offlineQueueLock = FALSE
  /\ isOnline \in BOOLEAN
  /\ recentEventIds = <<>>
  /\ inflight = <<>>
  /\ retryTimers = 0
  /\ drainTimers = 0
  /\ waiters = 0
  /\ accepted = {}
  /\ suppressed = {}
  /\ attempted = {}
  /\ delivered = {}
  /\ evicted = {}
  /\ lost = {}

\* new EventQueue({batchSize: SmallBatch, ...})
Init ==
  /\ batchSize = SmallBatch
  /\ backoff = NoBackoff
  /\ Constructed

\* new EventQueue({batchSize: SmallBatch + 1, ...})
InitBatch ==
  /\ batchSize = SmallBatch + 1
  /\ backoff = NoBackoff
  /\ Constructed

\* new EventQueue({batchSize: SmallBatch - 1, ...}): chunks smaller than the
\* Offline Store
InitRestore ==
  /\ batchSize = SmallBatch - 1
  /\ backoff = NoBackoff
  /\ Constructed

\* --------------------------------------------------------- Duplicate Filter
\* variant: the filter compares a per-call identifier, which never repeats
isDuplicateEventById(e) == FALSE

isDuplicateEvent(e) == createEventHash(e) \in Range(recentEventIds)

\* variant: the clean-up loop deletes from the newest end
rememberEventKeepOldest(e) ==
  LET added == Append(recentEventIds, createEventHash(e))
  IN  Take(added, MAX_RECENT_EVENT_IDS)

\* recentEventIds after add() and the clean-up loop of isDuplicateEvent
rememberEvent(e) ==
  LET added == Append(recentEventIds, createEventHash(e))
  IN  IF Len(added) > MAX_RECENT_EVENT_IDS
      THEN Drop(added, Len(added) - MAX_RECENT_EVENT_IDS)
      ELSE added

\* ------------------------------------------------------ Priority Classifier
\* variant: no name is classified as critical
isCriticalNever(name) == FALSE

isCritical(name) == name \in criticalEvents

isHighPriority(name) == name \in highPriorityEvents

\* ------------------------------------------------------------ Offline Store
\* SafeStorage.set: the value get() returns afterwards; a setItem that throws
\* (quota exceeded) leaves the persisted value as it was
storageSet(value, ok) == IF ok THEN value ELSE stored

\* loadOfflineQueue: the Offline Store a newly constructed queue starts with
loadOfflineQueue == stored

\* saveOfflineQueue: the array handed to storage.set
saveOfflineQueue(oq) == LastN(oq, maxOfflineQueueSize)

\* number of records moveToOfflineQueue cuts from the head of the array
excessOf(oq) ==
  IF Len(oq) > maxOfflineQueueSize THEN Len(oq) - maxOfflineQueueSize ELSE 0

\* variant: the limit cuts the newest records instead of the oldest
moveToOfflineQueueKeepOldest(events, W) ==
  LET pushed == offlineQueue \o events
      kept == Take(pushed, maxOfflineQueueSize)
  IN  /\ offlineQueue' = kept
      /\ evicted' = evicted \cup Range(Drop(pushed, maxOfflineQueueSize))
      /\ \E ok \in W : stored' = storageSet(saveOfflineQueue(kept), ok)
      /\ offlineQueueLock' = FALSE
      /\ lost' = lost

\* variant: a failed storage write undoes the push
moveToOfflineQueueDropOnFailure(events, W) ==
  LET pushed == offlineQueue \o events
      kept == Drop(pushed, excessOf(pushed))
  IN  /\ \E ok \in W :
           /\ offlineQueue' = (IF ok THEN kept ELSE offlineQueue)
           /\ stored' = storageSet(saveOfflineQueue(kept), ok)
      /\ evicted' = evicted \cup Range(Take(pushed, excessOf(pushed)))
      /\ offlineQueueLock' = FALSE
      /\ lost' = lost

\* variant: no finally block, the lock is taken and stays
moveToOfflineQueueKeepLock(events, W) ==
  IF offlineQueueLock
  THEN /\ lost' = lost \cup Range(events)
       /\ UNCHANGED << offlineQueue, stored, offlineQueueLock, evicted >>
  ELSE LET pushed == offlineQueue \o events
           kept == Drop(pushed, excessOf(pushed))
       IN  /\ offlineQueue' = kept
           /\ evicted' = evicted \cup Range(Take(pushed, excessOf(pushed)))
           /\ \E ok \in W : stored' = storageSet(saveOfflineQueue(kept), ok)
           /\ offlineQueueLock' = TRUE
           /\ lost' = lost

\* moveToOfflineQueue(events): push, enforce the limit, save.  W holds the
\* outcomes the storage write can have.
moveToOfflineQueue(events, W) ==
  IF offlineQueueLock
  THEN /\ lost' = lost \cup Range(events)
       /\ UNCHANGED << offlineQueue, stored, offlineQueueLock, evicted >>
  ELSE LET pushed == offlineQueue \o events
           kept == Drop(pushed, excessOf(pushed))
       IN  /\ offlineQueue' = kept
           /\ evicted' = evicted \cup Range(Take(pushed, excessOf(pushed)))
           /\ \E ok \in W : stored' = storageSet(saveOfflineQueue(kept), ok)
           /\ offlineQueueLock' = FALSE
           /\ lost' = lost

\* ---------------------------------------------------------- Flush Coordinator
\* variant: flush() starts without looking at the promise or the lock
flushBusyNever == FALSE

\* the test at the head of flush()
flushBusy == flushPromise # "null" \/ flushLock

\* no promise continuation of the running turn is outstanding, so the event
\* loop can start a timer callback, an event handler or a fetch completion
TurnBoundary == flushPromise # "resolved"

\* variant: flush() has no finally block, an early return of _flush keeps
\* the lock
releaseOrDeferKeepLock(producer) ==
  /\ flushLock' = TRUE
  /\ flushPromise' = "null"

\* flush() leaves its finally block when the awaited _flush promise settles:
\* in the same turn when the caller is a timer or a fetch completion, at the
\* end of the producer's turn when a producer called it
releaseOrDefer(producer) ==
  IF producer
  THEN /\ flushLock' = TRUE
       /\ flushPromise' = "resolved"
  ELSE /\ flushLock' = FALSE
       /\ flushPromise' = "null"

\* variant: _flush() does not look at networkStatus
flushBodyIgnoringNetwork(q, bt, tp, producer, W) ==
  /\ batchTimer' = "null"
  /\ timerPending' = (IF bt # "null" THEN FALSE ELSE tp)
  /\ waiters' = waiters
  /\ IF q = <<>>
     THEN /\ queue' = q
          /\ releaseOrDefer(producer)
          /\ UNCHANGED << offlineVars, inflight, attempted >>
     ELSE LET events == Take(q, Min(batchSize, Len(q)))
          IN  /\ inflight' = Append(inflight, Dispatch("flush", events))
              /\ attempted' = attempted \cup Range(events)
              /\ queue' = q
              /\ flushLock' = TRUE
              /\ flushPromise' = "pending"
              /\ UNCHANGED offlineVars

\* variant: _flush() drops the timer handle without clearTimeout
flushBodyKeepTimer(q, bt, tp, producer, W) ==
  /\ batchTimer' = "null"
  /\ timerPending' = tp
  /\ waiters' = waiters
  /\ IF q = <<>>
     THEN /\ queue' = q
          /\ releaseOrDefer(producer)
          /\ UNCHANGED << offlineVars, inflight, attempted >>
     ELSE IF ~isOnline
     THEN /\ moveToOfflineQueue(q, W)
          /\ queue' = (IF offlineQueueLock THEN q ELSE <<>>)
          /\ releaseOrDefer(producer)
          /\ UNCHANGED << inflight, attempted >>
     ELSE LET events == Take(q, Min(batchSize, Len(q)))
          IN  /\ inflight' = Append(inflight, Dispatch("flush", events))
              /\ attempted' = attempted \cup Range(events)
              /\ queue' = q
              /\ flushLock' = TRUE
              /\ flushPromise' = "pending"
              /\ UNCHANGED offlineVars

\* _flush() on the queue q, up to its first await
flushBody(q, bt, tp, producer, W) ==
  /\ batchTimer' = "null"
  /\ timerPending' = (IF bt # "null" THEN FALSE ELSE tp)
  /\ waiters' = waiters
  /\ IF q = <<>>
     THEN /\ queue' = q
          /\ releaseOrDefer(producer)
          /\ UNCHANGED << offlineVars, inflight, attempted >>
     ELSE IF ~isOnline
     THEN /\ moveToOfflineQueue(q, W)
          /\ queue' = (IF offlineQueueLock THEN q ELSE <<>>)
          /\ releaseOrDefer(producer)
          /\ UNCHANGED << inflight, attempted >>
     ELSE LET events == Take(q, Min(batchSize, Len(q)))
          IN  /\ inflight' = Append(inflight, Dispatch("flush", events))
              /\ attempted' = attempted \cup Range(events)
              /\ queue' = q
              /\ flushLock' = TRUE
              /\ flushPromise' = "pending"
              /\ UNCHANGED offlineVars

\* flush() called with the Ready Queue q and the batch timer (bt, tp);
\* awaited: the caller keeps the returned promise; W: the outcomes of the
\* storage write, if the call makes one
flush(q, bt, tp, producer, awaited, W) ==
  IF flushBusy
  THEN /\ queue' = q
       /\ batchTimer' = bt
       /\ timerPending' = tp
       /\ waiters' = (IF awaited /\ flushPromise = "pending" THEN waiters + 1 ELSE waiters)
       /\ UNCHANGED << flushPromise, flushLock, offlineVars, inflight, attempted >>
  ELSE flushBody(q, bt, tp, producer, W)

\* variables no flush() call writes
notByFlush == << backoff, batchSize, strayTimers, periodicFlushInterval, isOnline, recentEventIds, retryTimers, drainTimers,
                 accepted, suppressed, delivered >>

\* ------------------------------------------------------------------ enqueue
\* variant: a critical event is queued and flushed like a full batch
sendCriticalViaQueue(e, W) ==
  flush(Append(queue, e), batchTimer, timerPending, TRUE, FALSE, W)

\* critical branch of enqueue: this.sendBatch([event]).catch(...) up to the
\* first await of sendBatch
sendCritical(e, W) ==
  /\ inflight' = Append(inflight, Dispatch("critical", <<e>>))
  /\ attempted' = attempted \cup {e}
  /\ UNCHANGED << queue, offlineVars, timerVars, flushVars >>

\* setTimeout(() => this.flush(), ...) assigned to this.batchTimer; tp: the
\* timer set last is pending and keeps running, no handle pointing at it
setTimer(kind, tp) ==
  /\ batchTimer' = kind
  /\ timerPending' = TRUE
  /\ strayTimers' = strayTimers + (IF tp THEN 1 ELSE 0)

\* variant: the high-priority branch sets its timer without clearTimeout
scheduleHighNoClear == setTimer("high", timerPending)

\* shouldFlush, high-priority branch: clearTimeout on a set handle, then the
\* 1 s timer
scheduleHigh == setTimer("high", IF batchTimer # "null" THEN FALSE ELSE timerPending)

\* shouldFlush, last branch: the flushInterval timer unless a handle is set
scheduleNormal ==
  IF batchTimer = "null"
  THEN setTimer("normal", timerPending)
  ELSE UNCHANGED << timerVars, strayTimers >>

\* enqueue(event), called by the producer
Enqueue(e, W) ==
  IF isDuplicateEvent(e)
  THEN /\ e \notin suppressed => Cardinality(suppressed) < MaxDuplicates
       /\ suppressed' = suppressed \cup {e}
       /\ UNCHANGED << backoff, batchSize, strayTimers, queue, offlineVars, timerVars, periodicFlushInterval, flushVars, isOnline,
                       recentEventIds, inflight, retryTimers, drainTimers, accepted, attempted,
                       delivered >>
  ELSE /\ recentEventIds' = rememberEvent(e)
       /\ accepted' = accepted \cup {e}
       /\ UNCHANGED << backoff, batchSize, suppressed, periodicFlushInterval, isOnline, retryTimers, drainTimers,
                       delivered >>
       /\ IF isCritical(e.event_name)
          THEN sendCritical(e, W) /\ strayTimers' = strayTimers
          ELSE LET q1 == Append(queue, e)
               IN  IF Len(q1) >= batchSize
                   THEN flush(q1, batchTimer, timerPending, TRUE, FALSE, W) /\ strayTimers' = strayTimers
                   ELSE /\ queue' = q1
                        /\ IF isHighPriority(e.event_name)
                           THEN scheduleHigh
                           ELSE scheduleNormal
                        /\ UNCHANGED << flushVars, offlineVars, inflight, attempted >>

\* the microtask checkpoint that ends a producer's turn: flush() resumes
\* after  await this.flushPromise  and runs its finally block
Checkpoint ==
  /\ flushPromise = "resolved"
  /\ flushPromise' = "null"
  /\ flushLock' = FALSE
  /\ waiters' = 0
  /\ UNCHANGED << backoff, batchSize, strayTimers, queue, offlineVars, timerVars, periodicFlushInterval, isOnline, recentEventIds,
                  inflight, retryTimers, drainTimers, accepted, suppressed, attempted, delivered >>

\* flush() called by the producer (Datalyr.flush awaits it)
ManualFlush(W) ==
  /\ flushPromise = "pending" => waiters < MaxWaiters
  /\ flush(queue, batchTimer, timerPending, TRUE, TRUE, W)
  /\ UNCHANGED notByFlush

\* the callback of the batch timer set by shouldFlush
BatchTimerFire(W) ==
  /\ TurnBoundary
  /\ \E last \in { b \in BOOLEAN : IF b THEN timerPending ELSE strayTimers > 0 } :
       /\ strayTimers' = (IF last THEN strayTimers ELSE strayTimers - 1)
       /\ flush(queue, batchTimer, IF last THEN FALSE ELSE timerPending, FALSE, FALSE, W)
  /\ UNCHANGED << backoff, batchSize, periodicFlushInterval, isOnline, recentEventIds, retryTimers, drainTimers,
                  accepted, suppressed, delivered >>

\* the setInterval callback of startPeriodicFlush
PeriodicFire(W) ==
  /\ TurnBoundary
  /\ periodicFlushInterval
  /\ Len(queue) > 0
  /\ flush(queue, batchTimer, timerPending, FALSE, FALSE, W)
  /\ UNCHANGED notByFlush

\* the callback of the timer set by sendBatch on a 429 response
RetryTimerFire(W) ==
  /\ TurnBoundary
  /\ retryTimers > 0
  /\ retryTimers' = retryTimers - 1
  /\ flush(queue, batchTimer, timerPending, FALSE, FALSE, W)
  /\ UNCHANGED << backoff, batchSize, strayTimers, periodicFlushInterval, isOnline, recentEventIds, drainTimers, accepted,
                  suppressed, delivered >>

\* ----------------------------------------------------------------- Dispatcher
\* responses a fetch can end with: 2xx, 429, any other failure (non-2xx
\* status or a rejected fetch)
Outcomes == {"ok", "rateLimited", "error"}

\* catch block of sendBatch: the next call it makes, "fallback", "retry", or
\* "throw" when it rethrows to the caller
afterFailure(d) ==
  IF d.endpointIndex < NumEndpoints - 1 THEN "fallback"
  ELSE IF d.retries < maxRetries THEN "retry"
  ELSE "throw"

\* variant: each attempt takes its records from the queue anew
nextAttemptFromQueue(d) ==
  IF afterFailure(d) = "fallback"
  THEN [d EXCEPT !.endpointIndex = d.endpointIndex + 1, !.retries = 0,
                 !.events = Take(queue, batchSize)]
  ELSE [d EXCEPT !.retries = d.retries + 1, !.events = Take(queue, batchSize)]

\* variant: a retry starts over at the primary endpoint
nextAttemptFromPrimary(d) ==
  IF afterFailure(d) = "fallback"
  THEN [d EXCEPT !.endpointIndex = d.endpointIndex + 1, !.retries = 0]
  ELSE [d EXCEPT !.endpointIndex = 0, !.retries = d.retries + 1]

\* the sendBatch call that replaces d after a failed attempt
nextAttempt(d) ==
  IF afterFailure(d) = "fallback"
  THEN [d EXCEPT !.endpointIndex = d.endpointIndex + 1, !.retries = 0]
  ELSE [d EXCEPT !.retries = d.retries + 1]

\* variant: an error escapes _flush() past the finally block, the lock stays
releaseFlushKeepLock ==
  /\ flushPromise' = "null"
  /\ flushLock' = TRUE
  /\ waiters' = 0

\* finally block of flush(), run when the awaited _flush promise settles
releaseFlush ==
  /\ flushPromise' = "null"
  /\ flushLock' = FALSE
  /\ waiters' = 0

\* sendBatch resolved: the continuation of its caller
onSuccess(i, d, W) ==
  /\ delivered' = delivered \cup Range(d.events)
  /\ IF d.kind = "flush"
     THEN \* _flush: this.queue.splice(0, batchSize)
          /\ queue' = Drop(queue, Len(d.events))
          /\ inflight' = RemoveAt(inflight, i)
          /\ releaseFlush
          /\ UNCHANGED << offlineVars, attempted >>
     ELSE IF d.kind = "critical"
     THEN /\ inflight' = RemoveAt(inflight, i)
          /\ UNCHANGED << queue, offlineVars, flushVars, attempted >>
     ELSE \* processOfflineQueue: save, then the next round of the loop
          /\ IF Len(offlineQueue) > 0
             THEN LET batch == Take(offlineQueue, batchSize)
                  IN  /\ \E ok \in W : stored' = storageSet(saveOfflineQueue(offlineQueue), ok)
                      /\ offlineQueue' = Drop(offlineQueue, batchSize)
                      /\ inflight' = [inflight EXCEPT ![i] = Dispatch("drain", batch)]
                      /\ attempted' = attempted \cup Range(batch)
             ELSE \* storage.remove after the loop
                  /\ stored' = <<>>
                  /\ offlineQueue' = offlineQueue
                  /\ inflight' = RemoveAt(inflight, i)
                  /\ attempted' = attempted
          /\ UNCHANGED << queue, flushVars, offlineQueueLock, evicted, lost >>

\* sendBatch rejected: the catch handler of its caller
onFailure(i, d, W) ==
  /\ inflight' = RemoveAt(inflight, i)
  /\ UNCHANGED << queue, delivered, attempted >>
  /\ IF d.kind = "flush"
     THEN /\ moveToOfflineQueue(d.events, W)
          /\ releaseFlush
     ELSE IF d.kind = "critical"
     THEN /\ moveToOfflineQueue(d.events, W)
          /\ UNCHANGED flushVars
     ELSE \* processOfflineQueue: unshift the batch, save, break
          /\ offlineQueue' = d.events \o offlineQueue
          /\ \E ok \in W : stored' = storageSet(saveOfflineQueue(offlineQueue'), ok)
          /\ UNCHANGED << flushVars, offlineQueueLock, evicted, lost >>

\* variant: the 429 branch puts the batch back at the head of the queue
nextCallRequeue(i, d, o) ==
  /\ inflight' = [inflight EXCEPT ![i] = nextAttempt(d)]
  /\ queue' = (IF o = "rateLimited" THEN d.events \o queue ELSE queue)
  /\ UNCHANGED << offlineVars, flushVars, attempted, delivered >>

\* sendBatch goes on after a failed attempt: the 429 branch and the catch
\* block call sendBatch again and touch neither queue nor offline store
nextCall(i, d, o) ==
  /\ inflight' = [inflight EXCEPT ![i] = nextAttempt(d)]
  /\ UNCHANGED << queue, offlineVars, flushVars, attempted, delivered >>

\* the fetch of sendBatch call i ends with outcome o; sendBatch and its
\* callers run on in the same turn
Respond(i, o, W) ==
  /\ TurnBoundary
  /\ i \in 1..Len(inflight)
  /\ o = "rateLimited" => retryTimers < MaxRetryTimers
  /\ retryTimers' = (IF o = "rateLimited" THEN retryTimers + 1 ELSE retryTimers)
  /\ UNCHANGED << backoff, batchSize, strayTimers, timerVars, periodicFlushInterval, isOnline, recentEventIds, drainTimers,
                  accepted, suppressed >>
  /\ LET d == inflight[i]
     IN  IF o = "ok"
         THEN onSuccess(i, d, W)
         ELSE IF afterFailure(d) = "throw"
         THEN onFailure(i, d, W)
         ELSE nextCall(i, d, o)

\* ------------------------------------------------------------ network status
\* drain passes that run or are scheduled
drainsActive == drainTimers + Cardinality({ i \in 1..Len(inflight) : inflight[i].kind = "drain" })

\* 'online' event
Online ==
  /\ TurnBoundary
  /\ ~isOnline
  /\ drainsActive < MaxDrains
  /\ isOnline' = TRUE
  /\ drainTimers' = drainTimers + 1
  /\ UNCHANGED << backoff, batchSize, strayTimers, queue, offlineVars, timerVars, periodicFlushInterval, flushVars, recentEventIds,
                  inflight, retryTimers, accepted, suppressed, attempted, delivered >>

\* 'offline' event
Offline ==
  /\ TurnBoundary
  /\ isOnline
  /\ isOnline' = FALSE
  /\ UNCHANGED << backoff, batchSize, strayTimers, queue, offlineVars, timerVars, periodicFlushInterval, flushVars, recentEventIds,
                  inflight, retryTimers, drainTimers, accepted, suppressed, attempted, delivered >>

\* variant: processOfflineQueue() sends the whole Offline Store as one batch
DrainTimerFireWholeStore ==
  /\ TurnBoundary
  /\ drainTimers > 0
  /\ drainTimers' = drainTimers - 1
  /\ IF Len(offlineQueue) = 0
     THEN UNCHANGED << offlineQueue, inflight, attempted >>
     ELSE /\ offlineQueue' = <<>>
          /\ inflight' = Append(inflight, Dispatch("drain", offlineQueue))
          /\ attempted' = attempted \cup Range(offlineQueue)
  /\ UNCHANGED << backoff, batchSize, strayTimers, queue, stored, offlineQueueLock, evicted, lost, timerVars,
                  periodicFlushInterval, flushVars, isOnline, recentEventIds, retryTimers,
                  accepted, suppressed, delivered >>

\* the timer set by the 'online' handler fires: processOfflineQueue() up to
\* its first await
DrainTimerFire ==
  /\ TurnBoundary
  /\ drainTimers > 0
  /\ drainTimers' = drainTimers - 1
  /\ IF Len(offlineQueue) = 0
     THEN UNCHANGED << offlineQueue, inflight, attempted >>
     ELSE LET batch == Take(offlineQueue, batchSize)
          IN  /\ offlineQueue' = Drop(offlineQueue, batchSize)
              /\ inflight' = Append(inflight, Dispatch("drain", batch))
              /\ attempted' = attempted \cup Range(batch)
  /\ UNCHANGED << backoff, batchSize, strayTimers, queue, stored, offlineQueueLock, evicted, lost, timerVars, periodicFlushInterval,
                  flushVars, isOnline, recentEventIds, retryTimers, accepted, suppressed,
                  delivered >>

\* ------------------------------------------------- unload, clear, destroy
\* navigator.sendBeacon: missing, returning false, returning true
Beacons == {"unavailable", "refused", "accepted"}

\* variant: forceFlush() does not look at what sendBeacon returns
ForceFlushIgnoringRefusal(b, W) ==
  /\ TurnBoundary
  /\ IF b # "unavailable" /\ Len(queue) > 0
     THEN /\ attempted' = attempted \cup Range(queue)
          /\ queue' = <<>>
          /\ UNCHANGED << offlineVars, timerVars, flushVars, inflight >>
     ELSE /\ flushPromise = "pending" => waiters < MaxWaiters
          /\ flush(queue, batchTimer, timerPending, FALSE, TRUE, W)
  /\ UNCHANGED notByFlush

\* forceFlush(), called by the unload handlers of index.ts
ForceFlush(b, W) ==
  /\ TurnBoundary
  /\ IF b = "accepted" /\ Len(queue) > 0
     THEN /\ attempted' = attempted \cup Range(queue)
          /\ queue' = <<>>
          /\ UNCHANGED << offlineVars, timerVars, flushVars, inflight >>
     ELSE /\ flushPromise = "pending" => waiters < MaxWaiters
          /\ flush(queue, batchTimer, timerPending, FALSE, TRUE, W)
  /\ UNCHANGED notByFlush

\* clear(), called by optOut
Clear ==
  /\ queue' = <<>>
  /\ batchTimer' = "null"
  /\ timerPending' = (IF batchTimer # "null" THEN FALSE ELSE timerPending)
  /\ UNCHANGED << backoff, batchSize, strayTimers, offlineVars, periodicFlushInterval, flushVars, isOnline, recentEventIds,
                  inflight, retryTimers, drainTimers, accepted, suppressed, attempted, delivered >>

\* variant: destroy() leaves the periodic flush running
DestroyKeepInterval(W) ==
  /\ periodicFlushInterval' = periodicFlushInterval
  /\ batchTimer' = "null"
  /\ timerPending' = (IF batchTimer # "null" THEN FALSE ELSE timerPending)
  /\ IF Len(queue) > 0
     THEN /\ moveToOfflineQueue(queue, W)
          /\ queue' = (IF offlineQueueLock THEN queue ELSE <<>>)
     ELSE UNCHANGED << queue, offlineVars >>
  /\ UNCHANGED << backoff, batchSize, strayTimers, flushVars, isOnline, recentEventIds, inflight, retryTimers,
                  drainTimers, accepted, suppressed, attempted, delivered >>

\* destroy()
Destroy(W) ==
  /\ periodicFlushInterval' = FALSE
  /\ batchTimer' = "null"
  /\ timerPending' = (IF batchTimer # "null" THEN FALSE ELSE timerPending)
  /\ IF Len(queue) > 0
     THEN /\ moveToOfflineQueue(queue, W)
          /\ queue' = (IF offlineQueueLock THEN queue ELSE <<>>)
     ELSE UNCHANGED << queue, offlineVars >>
  /\ UNCHANGED << backoff, batchSize, strayTimers, flushVars, isOnline, recentEventIds, inflight, retryTimers,
                  drainTimers, accepted, suppressed, attempted, delivered >>

\* ------------------------------------------------------------ specifications
\* outcomes of a storage write: setItem returns, setItem throws
Writes == BOOLEAN

\* indices of inflight
Slots == 1..(MaxDrains + 3)

\* the Ready Queue path: enqueue, every trigger of flush() and the
\* dispatcher's outcomes
FlushEvents == { Ev("click"), Ev("search"), Ev("purchase") }

Next ==
  \/ \E e \in FlushEvents : Enqueue(e, Writes)
  \/ Checkpoint
  \/ ManualFlush(Writes)
  \/ BatchTimerFire(Writes)
  \/ PeriodicFire(Writes)
  \/ RetryTimerFire(Writes)
  \/ \E i \in Slots, o \in Outcomes : Respond(i, o, Writes)

Spec == Init /\ [][Next]_vars

\* the Offline Store path: offline moves, destroy() and drain passes
DrainEvents == { Ev("click"), Ev("purchase") }

NextDrain ==
  \/ \E e \in DrainEvents : Enqueue(e, {TRUE})
  \/ Checkpoint
  \/ ManualFlush({TRUE})
  \/ \E i \in Slots, o \in {"ok", "error"} : Respond(i, o, {TRUE})
  \/ (drainsActive = 0 /\ Online)
  \/ Offline
  \/ DrainTimerFire
  \/ Destroy({TRUE})

SpecDrain == Init /\ [][NextDrain]_vars

\* every caller of the dispatcher at work at once while the page stays online:
\* flushes, critical dispatches and drain passes started by any 'online'
\* event, with clear() between the attempts and every response a fetch can
\* end with
DispatchEvents == { Ev("click"), Ev("purchase") }

NextDispatch ==
  \/ \E e \in DispatchEvents : Enqueue(e, {TRUE})
  \/ Checkpoint
  \/ ManualFlush({TRUE})
  \/ RetryTimerFire({TRUE})
  \/ \E i \in Slots, o \in Outcomes : Respond(i, o, {TRUE})
  \/ Online
  \/ DrainTimerFire
  \/ Clear

SpecDispatch == Init /\ [][NextDispatch]_vars

\* batching: three queueable events and a batchSize of three
BatchEvents == { Ev("click"), Ev("scroll"), Ev("search") }

NextBatch ==
  \/ \E e \in BatchEvents : Enqueue(e, {TRUE})
  \/ Checkpoint
  \/ ManualFlush({TRUE})
  \/ BatchTimerFire({TRUE})
  \/ PeriodicFire({TRUE})
  \/ \E i \in Slots, o \in {"ok", "error"} : Respond(i, o, {TRUE})

SpecBatch == InitBatch /\ [][NextBatch]_vars

\* the Duplicate Filter with custom event names: track('Aa') and track('BB')
\* next to a built-in name, same timestamp and empty payload
HashEvents == { Ev("Aa"), Ev("BB"), Ev("click") }

NextHash ==
  \/ \E e \in HashEvents : Enqueue(e, {TRUE})
  \/ Checkpoint
  \/ ManualFlush({TRUE})
  \/ BatchTimerFire({TRUE})
  \/ \E i \in Slots, o \in {"ok", "error"} : Respond(i, o, {TRUE})

SpecHash == Init /\ [][NextHash]_vars

\* a session that has been running for a while: 'click' was enqueued and
\* delivered, then so many other events that the recent-history set is full
\* or one short of it, and all of them have left the queue
Earlier == { MAX_RECENT_EVENT_IDS - 2, MAX_RECENT_EVENT_IDS - 1 }

InitWindow ==
  /\ batchSize = SmallBatch
  /\ backoff = NoBackoff
  /\ \E n \in Earlier :
       recentEventIds = << createEventHash(Ev("click")) >> \o [ k \in 1..n |-> ToString36(k) ]
  /\ accepted = { Ev("click") }
  /\ attempted = { Ev("click") }
  /\ delivered = { Ev("click") }
  /\ stored = <<>>
  /\ offlineQueue = stored
  /\ queue = <<>>
  /\ batchTimer = "null"
  /\ timerPending = FALSE
  /\ strayTimers = 0
  /\ periodicFlushInterval = TRUE
  /\ flushPromise = "null"
  /\ flushLock = FALSE
  /\ offlineQueueLock = FALSE
  /\ isOnline \in BOOLEAN
  /\ inflight = <<>>
  /\ retryTimers = 0
  /\ drainTimers = 0
  /\ waiters = 0
  /\ suppressed = {}
  /\ evicted = {}
  /\ lost = {}

WindowEvents == { Ev("click"), Ev("scroll"), Ev("search") }

NextWindow ==
  \/ \E e \in WindowEvents : Enqueue(e, {TRUE})
  \/ Checkpoint
  \/ ManualFlush({TRUE})
  \/ BatchTimerFire({TRUE})
  \/ \E i \in Slots, o \in {"ok", "error"} : Respond(i, o, {TRUE})

SpecWindow == InitWindow /\ [][NextWindow]_vars

\* connectivity changes with chunks smaller than the Offline Store
RestoreEvents == { Ev("click"), Ev("purchase") }

NextRestore ==
  \/ \E e \in RestoreEvents : Enqueue(e, Writes)
  \/ Checkpoint
  \/ \E i \in Slots, o \in {"ok", "error"} : Respond(i, o, Writes)
  \/ Online
  \/ Offline
  \/ DrainTimerFire

SpecRestore == InitRestore /\ [][NextRestore]_vars

\* the network is or comes online and stays online: timers that are set fire,
\* the interval keeps firing, continuations run, and a fetch that is tried
\* again and again is answered with 2xx in the end
LiveEvents == { Ev("click"), Ev("purchase") }

NextLive ==
  \/ \E e \in LiveEvents : Enqueue(e, {TRUE})
  \/ Checkpoint
  \/ ManualFlush({TRUE})
  \/ BatchTimerFire({TRUE})
  \/ PeriodicFire({TRUE})
  \/ \E i \in Slots, o \in {"ok", "error"} : Respond(i, o, {TRUE})
  \/ Online
  \/ DrainTimerFire

Scheduling ==
  /\ WF_vars(Checkpoint)
  /\ WF_vars(BatchTimerFire({TRUE}))
  /\ WF_vars(PeriodicFire({TRUE}))
  /\ WF_vars(Online)
  /\ WF_vars(DrainTimerFire)
  /\ \A i \in Slots : SF_vars(Respond(i, "ok", {TRUE}))

SpecLive == Init /\ [][NextLive]_vars /\ Scheduling

\* the same callbacks with a dispatcher that is only known to terminate: every
\* fetch settles, with a 2xx or with a failure
Terminating ==
  /\ WF_vars(Checkpoint)
  /\ WF_vars(BatchTimerFire({TRUE}))
  /\ WF_vars(PeriodicFire({TRUE}))
  /\ WF_vars(Online)
  /\ WF_vars(DrainTimerFire)
  /\ \A i \in Slots : SF_vars(\E o \in {"ok", "error"} : Respond(i, o, {TRUE}))

SpecTerminating == Init /\ [][NextLive]_vars /\ Terminating

\* page unload, page hide, opt-out and destroy() while events are queued or
\* being sent
UnloadEvents == { Ev("click"), Ev("scroll"), Ev("search") }

NextUnload ==
  \/ \E e \in UnloadEvents : Enqueue(e, {TRUE})
  \/ Checkpoint
  \/ BatchTimerFire({TRUE})
  \/ \E i \in Slots, o \in {"ok", "error"} : Respond(i, o, {TRUE})
  \/ \E b \in Beacons : ForceFlush(b, {TRUE})
  \/ Clear
  \/ Destroy(Writes)

SpecUnload == InitBatch /\ [][NextUnload]_vars

\* the backoff wait of the retry branch of sendBatch on its own: retries and
\* config.retryDelay as the call finds them, Math.random() as it falls
InitBackoff ==
  /\ batchSize = SmallBatch
  /\ backoff \in [attempt : 0..(MaxAttempt - 1), baseDelay : BaseDelays, random : Randoms,
                   delay : {-1}]
  /\ Constructed

\* const delay = calculateRetryDelay(retries, this.config.retryDelay)
RetryWait ==
  /\ backoff.delay = -1
  /\ backoff' = [backoff EXCEPT
                   !.delay = calculateRetryDelay(backoff.attempt, backoff.baseDelay, backoff.random)]
  /\ UNCHANGED << batchSize, strayTimers, queue, offlineVars, timerVars, periodicFlushInterval, flushVars,
                  isOnline, recentEventIds, inflight, retryTimers, drainTimers, accepted,
                  suppressed, attempted, delivered >>

NextBackoff == RetryWait

SpecBackoff == InitBackoff /\ [][NextBackoff]_vars

TypeOK ==
  /\ batchSize \in {SmallBatch - 1, SmallBatch, SmallBatch + 1}
  /\ Range(queue) \subseteq Events \cup HashEvents
  /\ Range(offlineQueue) \subseteq Events \cup HashEvents
  /\ Range(stored) \subseteq Events \cup HashEvents
  /\ batchTimer \in {"null", "normal", "high"}
  /\ timerPending \in BOOLEAN
  /\ strayTimers \in Nat
  /\ flushPromise \in {"null", "pending", "resolved"}
  /\ flushLock \in BOOLEAN
  /\ retryTimers \in 0..MaxRetryTimers
  /\ drainTimers \in 0..MaxDrains
  /\ waiters \in 0..MaxWaiters

\* -------------------------------------------------------------- properties
\* indices of the sendBatch calls made by _flush
FlushSlots(s) == { i \in 1..Len(s) : s[i].kind = "flush" }

CriticalSlots(s, e) == { i \in 1..Len(s) : s[i].kind = "critical" /\ s[i].events = <<e>> }

Count(e, s) == Cardinality({ i \in 1..Len(s) : s[i] = e })

IsCriticalName(e) == e.event_name \in DEFAULT_CRITICAL_EVENTS

IsHighName(e) == e.event_name \in DEFAULT_HIGH_PRIORITY_EVENTS

\* no dispatch is in flight and the Ready Queue is empty
Quiescent == inflight = <<>> /\ queue = <<>>

\* the step ends the _flush dispatch d (on its last attempt) without delivery
FlushFails(d) ==
  /\ afterFailure(d) = "throw"
  /\ FlushSlots(inflight') = {}
  /\ ~(Range(d.events) \subseteq delivered')

\* the step ends the critical dispatch of e
CriticalSettles(e) == CriticalSlots(inflight, e) # {} /\ CriticalSlots(inflight', e) = {}

\* the step accepts e (e passes the Duplicate Filter)
Accepts(e) == e \notin accepted /\ e \in accepted'

\* C1 (no-loss): once no dispatch is in flight and the Ready Queue is empty,
\* every accepted event that the size bound did not evict is either delivered
\* or in the Offline Store, and not both.
C1_NoLoss ==
  Quiescent =>
    \A e \in accepted \ evicted : (e \in delivered) # (e \in Range(offlineQueue))

\* C2 (single-flight): at most one flush dispatch is in flight; while one is
\* in flight no step starts another one or changes its batch, and a late
\* caller stays pending until that dispatch has ended.
C2_SingleFlight ==
  /\ [](/\ Cardinality(FlushSlots(inflight)) <= 1
        /\ waiters > 0 => FlushSlots(inflight) # {})
  /\ [][ \A i \in FlushSlots(inflight) :
           \/ FlushSlots(inflight') = {}
           \/ /\ Cardinality(FlushSlots(inflight')) = 1
              /\ \A j \in FlushSlots(inflight') :
                   /\ inflight'[j].events = inflight[i].events
                   /\ inflight'[j].endpointIndex + inflight'[j].retries
                        >= inflight[i].endpointIndex + inflight[i].retries
              /\ waiters' >= waiters ]_vars

\* a flush() call arrived while a flush dispatch was in flight
C2_Witness == waiters > 0 /\ FlushSlots(inflight) # {} /\ Len(queue) >= 1

\* C3 (failed flush moves the snapshot): when the dispatch of a flush fails,
\* the snapshot is the tail of the Offline Store, none of its records is in the
\* Ready Queue any more and the rest of the Ready Queue is unchanged.
C3_FailureMovesSnapshot ==
  [][ \A i \in FlushSlots(inflight) :
        FlushFails(inflight[i]) =>
          /\ LastN(offlineQueue', Len(inflight[i].events)) = inflight[i].events
          /\ queue' = Drop(queue, Len(inflight[i].events))
          /\ Range(inflight[i].events) \cap Range(queue') = {} ]_vars

\* C4 (offline bound): the in-memory Offline Store never holds more than
\* maxOfflineQueueSize records.
C4_OfflineBound == Len(offlineQueue) <= maxOfflineQueueSize

\* C5 (duplicate dropped): an enqueue that is suppressed as a duplicate changes
\* nothing but the log, and a critical event has at most one dispatch, which
\* is not repeated after it was delivered.
C5_DuplicateNoEffect ==
  /\ [][ suppressed' # suppressed =>
           UNCHANGED << backoff, batchSize, strayTimers, queue, offlineVars, timerVars, periodicFlushInterval,
                        flushVars, isOnline, recentEventIds, inflight, retryTimers,
                        drainTimers, accepted, attempted, delivered >> ]_vars
  /\ [](\A e \in Events :
          /\ Cardinality(CriticalSlots(inflight, e)) <= 1
          /\ CriticalSlots(inflight, e) # {} => e \notin delivered)

\* a critical event was submitted twice and dispatched once
C5_Witness ==
  \E e \in suppressed : IsCriticalName(e) /\ CriticalSlots(inflight, e) # {}

\* C6 (idempotence): an event that was submitted twice has at most one record
\* leaving the Ready Queue: its records in the Ready Queue and the Offline
\* Store together are at most one, and none remains once it is delivered.
C6_Idempotence ==
  \A e \in suppressed :
    /\ Count(e, queue) + Count(e, offlineQueue) <= 1
    /\ e \in delivered => Count(e, queue) + Count(e, offlineQueue) = 0

C8_CriticalFailurePersisted ==
  [][ \A e \in Events :
        (CriticalSettles(e) /\ e \notin delivered') =>
          /\ offlineQueue' # <<>> /\ offlineQueue'[Len(offlineQueue')] = e
          /\ stored' # <<>> /\ stored'[Len(stored')] = e ]_vars

\* C8 (amended): when the dispatch of a critical event ends, the event is
\* delivered or it is the last record of the in-memory Offline Store; the
\* persisted copy is the saved Offline Store when the storage write succeeded
\* and is unchanged when it failed.
C8_CriticalFailureCaptured ==
  [][ \A e \in Events :
        CriticalSettles(e) =>
          \/ e \in delivered' /\ offlineQueue' = offlineQueue
          \/ /\ offlineQueue' # <<>> /\ offlineQueue'[Len(offlineQueue')] = e
             /\ stored' = saveOfflineQueue(offlineQueue') \/ stored' = stored ]_vars

\* the dispatch of a critical event failed and the event is in the Offline Store
C8_Witness ==
  \E e \in accepted :
    /\ IsCriticalName(e)
    /\ CriticalSlots(inflight, e) = {}
    /\ e \notin delivered
    /\ offlineQueue # <<>> /\ offlineQueue[Len(offlineQueue)] = e

\* C9 (priority ordering): when a step starts the dispatch of the batch that
\* was waiting for the pending batch timer, every critical event accepted
\* before that step has already had its first dispatch attempt.
C9_PriorityOrdering ==
  [][ (timerPending /\ Cardinality(FlushSlots(inflight')) > Cardinality(FlushSlots(inflight))) =>
        \A c \in accepted : IsCriticalName(c) => c \in attempted ]_vars

\* a critical event accepted after a normal one is being dispatched while the
\* normal one still waits for the batch timer
C9_Witness ==
  /\ timerPending
  /\ FlushSlots(inflight) = {}
  /\ \E c \in accepted, n \in Range(queue) :
       /\ IsCriticalName(c)
       /\ CriticalSlots(inflight, c) # {}
       /\ \E i, j \in 1..Len(recentEventIds) :
            /\ i < j
            /\ recentEventIds[i] = createEventHash(n)
            /\ recentEventIds[j] = createEventHash(c)

\* C10 (normal enqueue): a normal event is appended; when that fills a batch
\* and no flush is in flight a flush of the oldest batchSize records starts in
\* the same step; when the queue stays below batchSize a batch timer is
\* pending afterwards; a full batch that is answered with 2xx at once leaves
\* the Ready Queue and the Offline Store empty.
C10_NormalEnqueue ==
  [][ /\ \A e \in Events :
           (Accepts(e) /\ ~IsCriticalName(e) /\ ~IsHighName(e)) =>
             LET q1 == Append(queue, e)
             IN  IF Len(q1) >= batchSize /\ flushPromise = "null" /\ ~flushLock
                 THEN IF isOnline
                      THEN /\ queue' = q1
                           /\ \E j \in FlushSlots(inflight') :
                                inflight'[j] = Dispatch("flush", Take(q1, batchSize))
                      ELSE queue' = <<>>
                 ELSE /\ queue' = q1
                      /\ Len(q1) < batchSize => timerPending'
      /\ \A i \in FlushSlots(inflight) :
           ( /\ inflight[i] = Dispatch("flush", queue)
             /\ Len(queue) = batchSize
             /\ offlineQueue = <<>>
             /\ Range(queue) \subseteq delivered'
             /\ FlushSlots(inflight') = {} ) =>
             queue' = <<>> /\ offlineQueue' = <<>> ]_vars

\* a flush() call made in this state runs _flush() with the network offline
IdleOffline == ~isOnline /\ flushPromise = "null" /\ ~flushLock

\* the step moved the Ready Queue q to the Offline Store without a dispatch
MovedOffline(q) ==
  /\ inflight' = inflight
  /\ attempted' = attempted
  /\ queue' = <<>>
  /\ offlineQueue' = LastN(offlineQueue \o q, maxOfflineQueueSize)
  /\ flushPromise' # "pending"
  /\ flushPromise' = "null" => ~flushLock'

\* C11 (offline flush): a flush that starts while the network is offline, by
\* whatever trigger, starts no dispatch, appends the Ready Queue records in
\* order to the Offline Store (within its size bound), empties the Ready Queue
\* and leaves the coordinator idle.
C11_OfflineFlush ==
  [][ /\ ( /\ IdleOffline
           /\ queue # <<>>
           /\ \/ ManualFlush(Writes)
              \/ BatchTimerFire(Writes)
              \/ PeriodicFire(Writes)
              \/ RetryTimerFire(Writes) ) => MovedOffline(queue)
      /\ \A e \in Events :
           ( /\ IdleOffline
             /\ Accepts(e)
             /\ ~IsCriticalName(e)
             /\ Len(queue) + 1 >= batchSize ) => MovedOffline(Append(queue, e)) ]_vars

\* a full batch was enqueued offline and moved as a whole, nothing was sent
C11_Witness ==
  /\ ~isOnline
  /\ queue = <<>>
  /\ Len(offlineQueue) = SmallBatch
  /\ Range(offlineQueue) = accepted
  /\ attempted = {}
  /\ flushPromise = "null"

\* indices of the sendBatch calls made by processOfflineQueue
DrainSlots(s) == { i \in 1..Len(s) : s[i].kind = "drain" }

\* a drain pass starts with the head chunk of the Offline Store
DrainStartsAtHead ==
  (drainTimers' < drainTimers /\ offlineQueue # <<>>) =>
    /\ inflight' = Append(inflight, Dispatch("drain", Take(offlineQueue, batchSize)))
    /\ offlineQueue' = Drop(offlineQueue, batchSize)

\* after a delivered chunk the pass goes on with the next head chunk, or ends
\* with an empty Offline Store, in memory and persisted
DrainGoesOn(i) ==
  IF offlineQueue # <<>>
  THEN /\ inflight' = [inflight EXCEPT ![i] = Dispatch("drain", Take(offlineQueue, batchSize))]
       /\ offlineQueue' = Drop(offlineQueue, batchSize)
  ELSE /\ inflight' = RemoveAt(inflight, i)
       /\ offlineQueue' = <<>>
       /\ stored' = <<>>

\* C12 as stated: a drain pass sends the Offline Store in head chunks of at
\* most batchSize, and after each delivered chunk the persisted copy is the
\* remainder.
C12_DrainInChunks ==
  [][ /\ DrainStartsAtHead
      /\ \A i \in DrainSlots(inflight) :
           Respond(i, "ok", Writes) =>
             /\ DrainGoesOn(i)
             /\ offlineQueue # <<>> => stored' = offlineQueue ]_vars

\* C12 (amended): as above, but the remainder is handed to storage cut to
\* its newest maxOfflineQueueSize records, and the persisted copy is that
\* value when the storage write succeeded and is unchanged when it failed.
C12_DrainInChunksSaved ==
  [][ /\ DrainStartsAtHead
      /\ \A i \in DrainSlots(inflight) :
           Respond(i, "ok", Writes) =>
             /\ DrainGoesOn(i)
             /\ offlineQueue # <<>> =>
                  \/ stored' = LastN(offlineQueue, maxOfflineQueueSize)
                  \/ stored' = stored ]_vars

\* a pass is sending its second chunk: the first chunk was delivered, the rest
\* of the store was persisted and then handed to the dispatcher
C12_Witness ==
  \E i \in DrainSlots(inflight) :
    /\ Len(offlineQueue) = 0
    /\ stored = inflight[i].events
    /\ delivered # {}
    /\ Range(inflight[i].events) \cap delivered = {}
    /\ Len(inflight[i].events) = batchSize
    /\ isOnline

\* C13 (eventual drain): with the network online, every record in the Offline
\* Store eventually leaves it (handed to a drain dispatch, or evicted).
C13_EventualDrain ==
  \A e \in Events :
    (isOnline /\ e \in Range(offlineQueue)) ~> (e \notin Range(offlineQueue))

\* the step ends sendBatch call i of the kind k
Settles(i, k) ==
  /\ inflight[i].kind = k
  /\ inflight' = RemoveAt(inflight, i)

\* C14 (enqueue never fails): an accepted enqueue returns while the dispatch
\* it started is still outstanding; whatever the responses and the storage
\* writes are, a flush or critical dispatch ends with its records delivered or
\* in the Offline Store, no record is dropped by a handler, and the
\* coordinator's lock is held only while a flush runs.
C14_EnqueueNeverFails ==
  /\ [][ \A e \in Events :
           Accepts(e) =>
             /\ IsCriticalName(e) => CriticalSlots(inflight', e) # {}
             /\ flushPromise' = "pending" => FlushSlots(inflight') # {}
             /\ lost' = {} /\ ~offlineQueueLock' ]_vars
  /\ [][ \A i \in 1..Len(inflight) :
           (Settles(i, "flush") \/ Settles(i, "critical")) =>
             /\ \A e \in Range(inflight[i].events) :
                  e \in delivered' \/ e \in Range(offlineQueue')
             /\ lost' = {} /\ ~offlineQueueLock'
             /\ Settles(i, "flush") => (flushPromise' = "null" /\ ~flushLock') ]_vars
  /\ [](/\ flushLock => (flushPromise = "resolved" \/ FlushSlots(inflight) # {})
        /\ flushPromise = "pending" => FlushSlots(inflight) # {})

\* a dispatch started by enqueue was rate limited and failed, the storage
\* write failed too, and the pipeline is idle with the record in memory
C14_Witness ==
  /\ retryTimers > 0
  /\ inflight = <<>>
  /\ flushPromise = "null" /\ ~flushLock
  /\ \E e \in accepted \ delivered : e \in Range(offlineQueue) /\ e \notin Range(stored)

\* the step ends sendBatch call i in failure and the storage write of its
\* caller's handler throws
FailsUnsaved(i) ==
  /\ afterFailure(inflight[i]) = "throw"
  /\ Respond(i, "error", {FALSE})

\* C15 (write failure absorbed): when the storage write made by a failed
\* flush, critical dispatch or drain chunk, or by an offline flush, throws, the
\* records are in the in-memory Offline Store all the same, nothing is
\* dropped, the coordinator is released, and a drain pass that starts later
\* sends the head of the in-memory store whatever the persisted copy holds.
C15_WriteFailureAbsorbed ==
  [][ /\ \A i \in 1..Len(inflight) :
           FailsUnsaved(i) =>
             /\ stored' = stored
             /\ offlineQueue' =
                  (IF inflight[i].kind = "drain"
                   THEN inflight[i].events \o offlineQueue
                   ELSE LastN(offlineQueue \o inflight[i].events, maxOfflineQueueSize))
             /\ lost' = {} /\ ~offlineQueueLock'
             /\ inflight[i].kind = "flush" => (flushPromise' = "null" /\ ~flushLock')
      /\ \A e \in Events :
           ( /\ Enqueue(e, {FALSE})
             /\ Accepts(e)
             /\ ~IsCriticalName(e)
             /\ IdleOffline
             /\ Len(queue) + 1 >= batchSize ) =>
             (stored' = stored /\ MovedOffline(Append(queue, e)))
      /\ (drainTimers' < drainTimers /\ offlineQueue # <<>>) =>
           /\ inflight' = Append(inflight, Dispatch("drain", Take(offlineQueue, batchSize)))
           /\ attempted' = attempted \cup Range(Take(offlineQueue, batchSize)) ]_vars

\* a drain pass is sending a record that no storage write ever persisted
C15_Witness ==
  /\ stored = <<>>
  /\ delivered = {}
  /\ \E i \in DrainSlots(inflight) : Range(inflight[i].events) \subseteq accepted

\* C16 (restart round trip): the Offline Store of a queue constructed now
\* would hold every record that is handed to a drain dispatch and not yet
\* acknowledged.
C16_RestartRoundTrip ==
  \A i \in DrainSlots(inflight) :
    \A e \in Range(inflight[i].events) \ delivered : e \in Range(loadOfflineQueue)

\* the step is what a flush() call does to the Ready Queue q
StandardFlush(q) ==
  IF flushPromise # "null" \/ flushLock \/ q = <<>>
  THEN queue' = q /\ inflight' = inflight /\ offlineQueue' = offlineQueue
  ELSE IF isOnline
  THEN /\ queue' = q
       /\ inflight' = Append(inflight, Dispatch("flush", Take(q, batchSize)))
       /\ offlineQueue' = offlineQueue
  ELSE MovedOffline(q)

\* C17 (unload guard): forceFlush with an accepting beacon and a non-empty
\* Ready Queue hands all queued records to the beacon, starts no fetch,
\* empties the Ready Queue and leaves the Offline Store as it is; in every
\* other case the step is that of a flush() call.
C17_UnloadGuard ==
  [][ \A b \in Beacons :
        ForceFlush(b, {TRUE}) =>
          IF b = "accepted" /\ queue # <<>>
          THEN /\ queue' = <<>>
               /\ attempted' = attempted \cup Range(queue)
               /\ inflight' = inflight
               /\ offlineQueue' = offlineQueue /\ stored' = stored
          ELSE StandardFlush(queue) ]_vars

\* two queued records went out in one beacon: nothing is queued, in flight,
\* answered or stored
C17_Witness ==
  /\ queue = <<>>
  /\ inflight = <<>>
  /\ Cardinality(attempted) >= 2
  /\ delivered = {}
  /\ offlineQueue = <<>>

\* C18 (fallback success): when the first attempt on the first fallback is
\* answered with 2xx after the one attempt on the primary failed, the dispatch
\* ends there, and the flush leaves none of the batch's records in the Ready
\* Queue and none in the Offline Store.
C18_FallbackSuccess ==
  [][ \A i \in FlushSlots(inflight) :
        ( /\ inflight[i].endpointIndex = 1
          /\ inflight[i].retries = 0
          /\ Respond(i, "ok", Writes) ) =>
          /\ inflight' = RemoveAt(inflight, i)
          /\ Range(inflight[i].events) \subseteq delivered'
          /\ Range(inflight[i].events) \cap Range(queue') = {}
          /\ Range(inflight[i].events) \cap Range(offlineQueue') = {} ]_vars

\* baseDelay * 2^k of the wait under study, in microseconds
Nominal == backoff.baseDelay * Pow2(backoff.attempt) * 1000

\* C19 as stated: baseDelay * 2^k <= delay <= min(maxDelay, baseDelay * 2^k * 1.1).
C19_BackoffBounds ==
  backoff.delay # -1 =>
    /\ Nominal <= backoff.delay
    /\ backoff.delay <= Min(30000 * 1000, (Nominal \div 10) * 11)

\* C19 (amended): min(maxDelay, baseDelay * 2^k) <= delay
\* <= min(maxDelay, baseDelay * 2^k * 1.1), with maxDelay = 30000 ms.
C19_BackoffBoundsCapped ==
  backoff.delay # -1 =>
    /\ Min(30000 * 1000, Nominal) <= backoff.delay
    /\ backoff.delay <= Min(30000 * 1000, (Nominal \div 10) * 11)

\* a delay was computed that the cap cut down
C19_Witness ==
  /\ backoff.delay = 30000 * 1000
  /\ Nominal > 30000 * 1000
  /\ backoff.random > 0

\* C20 (snapshot and removal): a flush that starts dispatches the oldest
\* min(batchSize, length) records and leaves them in the Ready Queue; an
\* enqueue during the dispatch appends behind them; and a successful dispatch
\* removes exactly the records of its snapshot, so that every other record is
\* still in the Ready Queue, in order.
C20_SnapshotRemoval ==
  [][ /\ \A j \in FlushSlots(inflight') :
           FlushSlots(inflight) = {} =>
             inflight'[j].events = Take(queue', Min(batchSize, Len(queue')))
      /\ \A i \in FlushSlots(inflight), e \in Events :
           (Accepts(e) /\ ~IsCriticalName(e)) => queue' = Append(queue, e)
      /\ \A i \in FlushSlots(inflight) :
           Respond(i, "ok", {TRUE}) =>
             /\ Range(queue) \ Range(queue') \subseteq Range(inflight[i].events)
             /\ Range(inflight[i].events) \cap Range(queue') = {}
             /\ \A m, n \in 1..Len(queue') :
                  m < n => \E a, b \in 1..Len(queue) :
                             a < b /\ queue[a] = queue'[m] /\ queue[b] = queue'[n] ]_vars

\* C21 (no removal of unsent records): the success step of a flush removes
\* from the Ready Queue only records that were part of a dispatched batch.
C21_OnlySentRemoved ==
  [][ \A i \in FlushSlots(inflight) :
        Respond(i, "ok", {TRUE}) => (Range(queue) \ Range(queue')) \subseteq attempted ]_vars

\* C22 (rate limiting ends the dispatch): a 429 response schedules one retry
\* flush and ends the dispatch at once, with no attempt on a fallback
\* endpoint and no backoff retry.
C22_RateLimitEndsDispatch ==
  [][ \A i \in 1..Len(inflight) :
        Respond(i, "rateLimited", Writes) =>
          /\ retryTimers' = retryTimers + 1
          /\ inflight' = RemoveAt(inflight, i) ]_vars

\* C23 (rate-limited records wait in the Ready Queue): the step in which an
\* attempt of a flush is answered with 429 leaves the batch at the head of the
\* Ready Queue and writes nothing to the Offline Store.
C23_RateLimitedStayQueued ==
  [][ \A i \in FlushSlots(inflight) :
        Respond(i, "rateLimited", Writes) =>
          /\ Take(queue', Len(inflight[i].events)) = inflight[i].events
          /\ offlineQueue' = offlineQueue
          /\ stored' = stored ]_vars

\* ------------------------------------------------------------ Attempt order
\* the attempt that follows a failed attempt of d when no attempt is left out:
\* one endpoint further, or once more on the last endpoint
Advance(d) ==
  IF d.endpointIndex < NumFallbacks
  THEN [d EXCEPT !.endpointIndex = d.endpointIndex + 1]
  ELSE [d EXCEPT !.retries = d.retries + 1]

\* the number of the attempt d is making, counted from 1
AttemptNumber(d) == d.endpointIndex + d.retries + 1

\* C24: when an attempt fails with a non-429 error the dispatch goes on with
\* the next endpoint, or once more with the last endpoint, and reports failure
\* exactly when attempt NumFallbacks + 1 + maxRetries has failed; retries are
\* made on the last endpoint only, no attempt number exceeds that total, and
\* clear() and destroy() leave every dispatch in flight as it is
C24_AttemptOrder ==
  /\ [](\A i \in 1..Len(inflight) :
          /\ inflight[i].endpointIndex \in 0..NumFallbacks
          /\ inflight[i].retries \in 0..maxRetries
          /\ (inflight[i].retries > 0 => inflight[i].endpointIndex = NumFallbacks))
  /\ [][ /\ \A i \in 1..Len(inflight) :
              Respond(i, "error", {TRUE}) =>
                IF AttemptNumber(inflight[i]) < NumFallbacks + 1 + maxRetries
                THEN inflight' = [inflight EXCEPT ![i] = Advance(inflight[i])]
                ELSE inflight' = RemoveAt(inflight, i)
         /\ (Clear \/ Destroy({TRUE})) => inflight' = inflight ]_vars

\* a flush dispatch makes its last attempt after the queue was emptied under it
C24_Witness ==
  \E i \in FlushSlots(inflight) :
    /\ AttemptNumber(inflight[i]) = NumFallbacks + 1 + maxRetries
    /\ queue = << >>

\* ------------------------------------------------------- Batch of a dispatch
\* the attempts one dispatch may make
TotalAttempts == NumFallbacks + 1 + maxRetries

\* the slot of inflight' that holds what slot j of inflight held, when the
\* step answers slot k
SlotAfter(j, k) ==
  IF Len(inflight') < Len(inflight) /\ j > k THEN j - 1 ELSE j

\* C25: a dispatch that goes on after a failed attempt makes its next attempt
\* with the same records in the same order, and no enqueue, clear(), flush,
\* drain step or response to another dispatch changes the records of a
\* dispatch in flight: every step either leaves the records of every dispatch
\* as they are, or is the response that ends one dispatch and leaves the
\* records of the others as they are
C25_SameBatch ==
  [][ \/ /\ Len(inflight') >= Len(inflight)
         /\ \A j \in 1..Len(inflight) :
              /\ inflight'[j].events = inflight[j].events
              /\ inflight'[j].kind = inflight[j].kind
      \/ \E k \in 1..Len(inflight), o \in Outcomes :
           /\ Respond(k, o, {TRUE})
           /\ o = "ok" \/ AttemptNumber(inflight[k]) = TotalAttempts
           /\ \A j \in (1..Len(inflight)) \ {k} :
                /\ SlotAfter(j, k) \in 1..Len(inflight')
                /\ inflight'[SlotAfter(j, k)].events = inflight[j].events ]_vars

\* a drain chunk of two records makes its last attempt while a flush makes a
\* later attempt for a queue that clear() has emptied
C25_Witness ==
  \E i \in DrainSlots(inflight), j \in FlushSlots(inflight) :
    /\ Len(inflight[i].events) = 2
    /\ AttemptNumber(inflight[i]) = TotalAttempts
    /\ AttemptNumber(inflight[j]) > 1
    /\ queue = << >>

\* -------------------------------------------------- Dispatcher and its callers
\* C26: a response after which the dispatcher has attempts left, a failure or
\* a 429, changes neither the ready queue nor the offline store nor its
\* persisted copy; these change only in the step in which the dispatch ends
\* and its caller runs on
C26_DispatcherLeavesStores ==
  [][ \A i \in 1..Len(inflight), o \in {"error", "rateLimited"} :
        (Respond(i, o, {TRUE}) /\ AttemptNumber(inflight[i]) < TotalAttempts) =>
          /\ queue' = queue
          /\ offlineQueue' = offlineQueue
          /\ stored' = stored ]_vars

\* a drain chunk is at a later attempt after a 429 while both the ready queue
\* and the offline store hold records
C26_Witness ==
  \E i \in DrainSlots(inflight) :
    /\ AttemptNumber(inflight[i]) > 1
    /\ retryTimers > 0
    /\ queue # << >>
    /\ offlineQueue # << >>

\* ------------------------------------------------------ Failed drain chunk
\* s is a prefix of t
IsPrefix(s, t) == Len(s) <= Len(t) /\ SubSeq(t, 1, Len(s)) = s

\* the dispatch of drain slot i fails for good and the write that follows works
DrainFails(i) ==
  /\ AttemptNumber(inflight[i]) = TotalAttempts
  /\ Respond(i, "error", {TRUE})

\* C27: when the dispatch of a drain chunk fails, the chunk goes back to the
\* head of the offline store in its order, the result is saved, and the pass
\* dispatches no further chunk; and as long as the chunk is in flight and the
\* size limit cuts nothing, the offline store only grows at its tail, so that
\* after the failure it holds what it held before the chunk was taken,
\* followed by what was appended since
C27_FailedChunkRestored ==
  [][ \A i \in DrainSlots(inflight) :
        /\ DrainFails(i) =>
             /\ offlineQueue' = inflight[i].events \o offlineQueue
             /\ stored' = saveOfflineQueue(offlineQueue')
             /\ inflight' = RemoveAt(inflight, i)
             /\ drainTimers' = drainTimers
        /\ (~(\E o \in Outcomes : Respond(i, o, Writes)) /\ evicted' = evicted) =>
             IsPrefix(offlineQueue, offlineQueue') ]_vars

\* ----------------------------------------------------- Flush and drain apart
\* C28: no drain dispatch is in flight while a flush dispatch is, at most one
\* drain pass has a dispatch in flight, and no record is part of two
\* dispatches in flight
C28_WritersExclusive ==
  /\ DrainSlots(inflight) = {} \/ FlushSlots(inflight) = {}
  /\ Cardinality(DrainSlots(inflight)) <= 1
  /\ \A i, j \in 1..Len(inflight) :
       i # j => Range(inflight[i].events) \cap Range(inflight[j].events) = {}

\* ------------------------------------------------------- High-priority timer
\* batch-timer callbacks that are scheduled and have neither fired nor been
\* cleared
PendingBatchTimers == (IF timerPending THEN 1 ELSE 0) + strayTimers

\* C29: an accepted high-priority event is appended to the queue (or leaves
\* with the flush it triggers); when the queue stays below batchSize the only
\* pending batch timer afterwards is the 1 s timer set by this enqueue; a
\* normal event accepted while that timer is pending leaves it as it is
C29_HighPriorityTimer ==
  [][ \A e \in Events :
        /\ (Accepts(e) /\ IsHighName(e)) =>
             IF Len(queue) + 1 < batchSize
             THEN /\ queue' = Append(queue, e)
                  /\ batchTimer' = "high"
                  /\ timerPending'
                  /\ PendingBatchTimers' = 1
             ELSE e \in Range(queue') \cup Range(offlineQueue')
        /\ ( /\ Accepts(e) /\ ~IsHighName(e) /\ ~IsCriticalName(e)
             /\ batchTimer = "high" /\ timerPending
             /\ Len(queue) + 1 < batchSize ) =>
             /\ UNCHANGED << batchTimer, timerPending, strayTimers >>
             /\ queue' = Append(queue, e) ]_vars

\* the 1 s timer is pending for a queue whose first event had set the
\* normal-interval timer
C29_Witness ==
  /\ queue = << Ev("click"), Ev("search") >>
  /\ batchTimer = "high"
  /\ timerPending
  /\ inflight = << >>

\* ------------------------------------------------------ Timer cancellation
\* the step starts a flush: the coordinator was idle and holds the lock
\* afterwards
EntersFlushing == flushPromise = "null" /\ ~flushLock /\ flushLock'

\* C30: at most one batch-timer callback is pending in every state, and a
\* step that starts a flush leaves none pending and the handle null
C30_TimerCancelled ==
  /\ [](PendingBatchTimers <= 1)
  /\ [][ EntersFlushing => (PendingBatchTimers' = 0 /\ batchTimer' = "null") ]_vars

\* a flush started before the queue was full is in flight for the whole
\* queue, whose events had set a timer, and no timer is pending
C30_Witness ==
  /\ flushPromise = "pending"
  /\ Len(queue) = 2
  /\ \E i \in FlushSlots(inflight) : inflight[i].events = queue
  /\ Ev("search") \in Range(queue)
  /\ PendingBatchTimers = 0

\* ------------------------------------------------------- Return to Idle
\* C31: whenever the flush lock is held it is released later, whatever the
\* flush met: an empty queue, no network, a delivered batch or a failed one
C31_ReturnsToIdle == flushLock ~> (~flushLock /\ flushPromise = "null")

\* the coordinator is idle again after a flush whose batch ended in the
\* offline store
C31_Witness ==
  /\ ~flushLock
  /\ flushPromise = "null"
  /\ FlushSlots(inflight) = {}
  /\ Ev("click") \in Range(offlineQueue)

\* ------------------------------------------------------ Leaving the queue
\* C32: every record that is in the ready queue is out of it at some later
\* time
C32_QueueDrains ==
  \A e \in LiveEvents : (e \in Range(queue)) ~> (e \notin Range(queue))

\* ------------------------------------------------- Offline store, no copies
\* C33: no record is in the offline store more than once
C33_OfflineNoDuplicates ==
  \A e \in Events : Count(e, offlineQueue) <= 1

\* ------------------------------------------------------ Beacon during a flush
\* records of the batches that _flush dispatches in flight hold
InFlush == UNION { Range(inflight[i].events) : i \in FlushSlots(inflight) }

\* C34: the payload that forceFlush hands to an accepting sendBeacon holds no
\* record of a flush dispatch that is in flight
C34_BeaconSkipsSnapshot ==
  [][ ForceFlush("accepted", {TRUE}) => Range(queue) \cap InFlush = {} ]_vars

\* -------------------------------------------------------------- clear()
\* C35: clear() empties the ready queue, leaves no batch timer pending and
\* does not touch the offline store; and a flush that fails writes to the
\* offline store only when its records are still in the ready queue, so none
\* that clear() removed from the queue
C35_ClearedStayOut ==
  [][ /\ Clear =>
           /\ queue' = << >>
           /\ batchTimer' = "null"
           /\ PendingBatchTimers' = 0
           /\ offlineQueue' = offlineQueue
           /\ stored' = stored
      /\ \A i \in FlushSlots(inflight) :
           ( /\ AttemptNumber(inflight[i]) = TotalAttempts
             /\ Respond(i, "error", {TRUE})
             /\ ~(Range(inflight[i].events) \subseteq Range(queue)) ) =>
             /\ offlineQueue' = offlineQueue
             /\ stored' = stored ]_vars

\* ------------------------------------------------------------- destroy()
\* C36 as stated: destroy() leaves the periodic flush stopped, no batch timer
\* pending and the ready queue empty, and the offline store, in memory and
\* persisted, is the old store followed by the queued records in their order,
\* cut to its newest maxOfflineQueueSize records
C36_DestroyPersists ==
  [][ Destroy(Writes) =>
        /\ ~periodicFlushInterval'
        /\ batchTimer' = "null" /\ PendingBatchTimers' = 0
        /\ queue' = << >>
        /\ offlineQueue' = LastN(offlineQueue \o queue, maxOfflineQueueSize)
        /\ stored' = offlineQueue' ]_vars

\* C36 (amended): as above, but the persisted copy is the new offline store
\* when the storage write succeeded and is unchanged when it failed or when
\* the queue was empty
C36_DestroySaves ==
  [][ Destroy(Writes) =>
        /\ ~periodicFlushInterval'
        /\ batchTimer' = "null" /\ PendingBatchTimers' = 0
        /\ queue' = << >>
        /\ offlineQueue' = LastN(offlineQueue \o queue, maxOfflineQueueSize)
        /\ stored' = offlineQueue' \/ stored' = stored ]_vars

\* destroy() has moved two queued records behind one that the offline store
\* held, and the oldest was cut
C36_Witness ==
  /\ ~periodicFlushInterval
  /\ queue = << >>
  /\ Len(offlineQueue) = maxOfflineQueueSize
  /\ evicted # {}
  /\ PendingBatchTimers = 0

\* ------------------------------------------------------ Only true duplicates
\* C37: every event the Duplicate Filter has dropped is an event it had
\* accepted before, so no event is dropped for sharing its hash with a
\* different one
C37_OnlyTrueDuplicates == suppressed \subseteq accepted

\* ------------------------------------------------------- Recent-history set
\* events that are queued, being sent or in the offline store
Held == Range(queue) \cup Range(offlineQueue)
          \cup UNION { Range(inflight[i].events) : i \in 1..Len(inflight) }

\* C38: the recent-history set holds at most MAX_RECENT_EVENT_IDS hashes, each
\* once; an enqueue whose hash is in the set changes neither the set nor the
\* queues; an enqueue whose hash is not in the set, also one that was evicted
\* from it, is accepted, and the set becomes the newest MAX_RECENT_EVENT_IDS
\* of the old hashes followed by the new one
C38_Window ==
  /\ [](/\ Len(recentEventIds) <= MAX_RECENT_EVENT_IDS
        /\ Cardinality(Range(recentEventIds)) = Len(recentEventIds))
  /\ [][ \A e \in WindowEvents :
           Enqueue(e, {TRUE}) =>
             IF createEventHash(e) \in Range(recentEventIds)
             THEN UNCHANGED << recentEventIds, queue, offlineQueue, inflight, accepted >>
             ELSE /\ recentEventIds' =
                       LastN(Append(recentEventIds, createEventHash(e)), MAX_RECENT_EVENT_IDS)
                  /\ e \in Held' ]_vars

\* 'click' is queued again after its hash was pushed out of the full set
C38_Witness ==
  /\ Len(recentEventIds) = MAX_RECENT_EVENT_IDS
  /\ recentEventIds[MAX_RECENT_EVENT_IDS] = createEventHash(Ev("click"))
  /\ Ev("click") \in Range(queue)

\* ------------------------------------------------------- Timer handle
\* C39: when the batch-timer handle is set, the timer it names is pending
C39_HandleMeansPending == batchTimer # "null" => timerPending

\* ------------------------------------------------------ Offline-queue lock
\* C40: the offline-queue lock is free in every state a callback starts from,
\* so no call of moveToOfflineQueue has returned early and dropped its records
C40_LockFree == ~offlineQueueLock /\ lost = {}

\* records were moved to the offline store, destroy() has run and a drain
\* dispatch is in flight
C40_Witness ==
  /\ ~periodicFlushInterval
  /\ offlineQueue # << >>
  /\ DrainSlots(inflight) # {}
  /\ evicted # {}

====
